---- MODULE Spec2Model ----
(***************************************************************************)
(* A model of kvstore::KVStore: a hash index (cache_) and a recency list   *)
(* (lru_list_) guarded by one mutex, with an optional write-ahead log      *)
(* (the file at wal_path_, written through wal_file_) and its replay by    *)
(* recover().                                                              *)
(*                                                                         *)
(* Strings (keys, values, log lines, the log file) are sequences of        *)
(* one-character strings, so that the log's text format and its parsing    *)
(* are modelled character by character.                                    *)
(***************************************************************************)
EXTENDS Integers, Sequences, FiniteSets, TLC

(***************************************************************************)
(* Bounds of the model.                                                    *)
(***************************************************************************)
\* max_capacity ranges over 1..MaxCap; there are MaxCap + 1 keys, so that a
\* full cache always has a key that is not resident.
MaxCap == 2
\* the most records the log file may hold
MaxLog == 3
\* the most destroy-and-construct-again cycles over the same log
MaxRestarts == 2
\* the worker threads of test_thread_safety and the put/get cycles of each
NumThreads == 2
Cycles == 2

KeyChars == <<"a", "b", "c", "d", "e", "f", "g", "h", "i", "j", "k", "l">>

\* keys: non-empty, without whitespace (the log format's stated domain)
Keys == { <<KeyChars[i]>> : i \in 1..(MaxCap + 1) }
\* values: without a newline; the empty value and a value with a leading
\* space and an inner space are among them
Values == { << >>, <<" ", "y", " ", "z">> }

Free == 0
WalPath == <<"w">>

\* std::optional<std::string>
Nullopt == [has_value |-> FALSE]
Some(v) == [has_value |-> TRUE, value |-> v]

VARIABLES
    max_capacity_,  \* size_t max_capacity_
    wal_path_,      \* std::string wal_path_ (<<>>: the log is disabled)
    cache_,         \* unordered_map: present key -> [value, lru_iter]
    lru_list_,      \* std::list of nodes [node, key], front = most recent
    wal_file_,      \* unique_ptr<ofstream>: "open" or "null"
    mutex_,         \* Free, or the thread that holds it
    disk,           \* the content of the file at wal_path_
    fs_ok,          \* environment: the file at wal_path_ can be opened
    pc,             \* per thread: where it is
    iter,           \* per thread: the worker's loop counter i
    wal_in,         \* per thread: recover()'s read position in the file
    temp_wal,       \* per thread: recover()'s local temp_wal
    \* history variables
    last,           \* the step taken last: the call, its result, what it met
    useOrder,       \* keys ordered by their last put or get, latest first
    lastPut,        \* key -> the value of its last put, until it is removed
    life,           \* what this cache object has been asked to do so far
    prev,           \* the previous cache object over the same log, at its end
    gen,            \* how many times the cache was destroyed and rebuilt
    \* a second cache object
    twin            \* a log-enabled KVStore of the same capacity: its cache_,
                    \* its lru_list_, its log and the result of its last call

vars == << max_capacity_, wal_path_, cache_, lru_list_, wal_file_, mutex_,
           disk, fs_ok, pc, iter, wal_in, temp_wal,
           last, useOrder, lastPut, life, prev, gen, twin >>

Threads == DOMAIN pc

(***************************************************************************)
(* Text: what operator>> and getline do on a line and on the file.         *)
(***************************************************************************)
WhiteSpace == {" ", "\t", "\n", "\r", "\f"}

OpPUT == <<"P", "U", "T">>
OpDEL == <<"D", "E", "L">>
OpCLEAR == <<"C", "L", "E", "A", "R">>

\* the first position >= i of s that holds no whitespace, or Len(s) + 1
RECURSIVE SkipWs(_, _)
SkipWs(s, i) ==
    IF i > Len(s) THEN Len(s) + 1
    ELSE IF s[i] \in WhiteSpace THEN SkipWs(s, i + 1) ELSE i

\* the first position >= i of s that holds whitespace, or Len(s) + 1
RECURSIVE TokenEnd(_, _)
TokenEnd(s, i) ==
    IF i > Len(s) THEN Len(s) + 1
    ELSE IF s[i] \in WhiteSpace THEN i ELSE TokenEnd(s, i + 1)

\* iss >> token, reading from position i: skips whitespace, then takes the
\* characters up to the next whitespace; fails when none is left
Extract(s, i) ==
    LET b == SkipWs(s, i)
        e == TokenEnd(s, b)
    IN  [ok |-> b <= Len(s), token |-> SubSeq(s, b, e - 1), next |-> e]

\* the first position >= i of d that holds a newline, or Len(d) + 1
RECURSIVE LineEnd(_, _)
LineEnd(d, i) ==
    IF i > Len(d) THEN Len(d) + 1
    ELSE IF d[i] = "\n" THEN i ELSE LineEnd(d, i + 1)

\* std::getline(wal_in, line) with the stream at position pos of content d
GetLine(d, pos) ==
    IF pos > Len(d) THEN [ok |-> FALSE, line |-> <<>>, next |-> pos]
    ELSE LET e == LineEnd(d, pos)
         IN  [ok |-> TRUE, line |-> SubSeq(d, pos, e - 1), next |-> e + 1]

\* the number of records (lines) in the file
NumRecords(d) == Cardinality({ i \in 1..Len(d) : d[i] = "\n" })

(***************************************************************************)
(* The containers.                                                         *)
(***************************************************************************)
EmptyMap == << >>

Restrict(f, S) == IF S = {} THEN EmptyMap ELSE [x \in S |-> f[x]]

\* the address of a newly allocated list node: one that no live node has
NewNode(l) ==
    CHOOSE n \in 1..(Len(l) + 1) :
        /\ \A i \in 1..Len(l) : l[i].node # n
        /\ \A m \in 1..(n - 1) : \E i \in 1..Len(l) : l[i].node = m

\* lru_list_.push_front(key)
push_front(l, key) == <<[node |-> NewNode(l), key |-> key]>> \o l

\* lru_list_.erase(it)
erase(l, it) ==
    LET Other(e) == e.node # it
    IN  SelectSeq(l, Other)

\* lru_list_.begin()
begin(l) == l[1].node

\* what the index holds: key -> value
Contents(c) == [k \in DOMAIN c |-> c[k].value]

\* the keys of the recency list, front first
Order(l) == [i \in 1..Len(l) |-> l[i].key]

\* KVStore::size's cache_.size()
CacheSize(c) == Cardinality(DOMAIN c)

(***************************************************************************)
(* The private helpers and the bodies of the public operations, as         *)
(* functions of the index c and the recency list l.                        *)
(***************************************************************************)
\* evict_lru taking the front of the list, the most recently used key
evict_mru(c, l) ==
    IF l = << >> THEN [cache |-> c, lru |-> l]
    ELSE [cache |-> Restrict(c, DOMAIN c \ {l[1].key}), lru |-> Tail(l)]

\* KVStore::evict_lru
evict_lru(c, l) ==
    IF l = << >> THEN [cache |-> c, lru |-> l]
    ELSE LET lru_key == l[Len(l)].key
         IN  [cache |-> Restrict(c, DOMAIN c \ {lru_key}),
              lru |-> SubSeq(l, 1, Len(l) - 1)]

\* the move to the front without the assignment of the value
MoveToFrontKeepsValue(c, l, key, value) ==
    LET l2 == push_front(erase(l, c[key].lru_iter), key)
    IN  [cache |-> [c EXCEPT ![key] = [value |-> c[key].value, lru_iter |-> begin(l2)]],
         lru |-> l2]

\* the move to the front without the assignment of lru_iter
MoveToFrontStaleIter(c, l, key, value) ==
    LET l2 == push_front(erase(l, c[key].lru_iter), key)
    IN  [cache |-> [c EXCEPT ![key] = [value |-> value, lru_iter |-> c[key].lru_iter]],
         lru |-> l2]

\* the move to the front of get and of put on a present key
MoveToFront(c, l, key, value) ==
    LET l2 == push_front(erase(l, c[key].lru_iter), key)
    IN  [cache |-> [c EXCEPT ![key] = [value |-> value, lru_iter |-> begin(l2)]],
         lru |-> l2]

\* the insertion with the capacity test off by one
InsertNewLate(c, l, cap, key, value) ==
    LET e == IF CacheSize(c) > cap THEN evict_lru(c, l)
             ELSE [cache |-> c, lru |-> l]
        l2 == push_front(e.lru, key)
    IN  [cache |-> (key :> [value |-> value, lru_iter |-> begin(l2)]) @@ e.cache,
         lru |-> l2]

\* the insertion with the capacity test one entry early
InsertNewEarly(c, l, cap, key, value) ==
    LET e == IF CacheSize(c) + 1 >= cap THEN evict_lru(c, l)
             ELSE [cache |-> c, lru |-> l]
        l2 == push_front(e.lru, key)
    IN  [cache |-> (key :> [value |-> value, lru_iter |-> begin(l2)]) @@ e.cache,
         lru |-> l2]

\* put's insertion of a key that is not present
InsertNew(c, l, cap, key, value) ==
    LET e == IF CacheSize(c) >= cap THEN evict_lru(c, l)
             ELSE [cache |-> c, lru |-> l]
        l2 == push_front(e.lru, key)
    IN  [cache |-> (key :> [value |-> value, lru_iter |-> begin(l2)]) @@ e.cache,
         lru |-> l2]

\* put with the capacity test made before the lookup of the key
PutEntryEvictsFirst(c, l, cap, key, value) ==
    LET e == IF CacheSize(c) >= cap THEN evict_lru(c, l)
             ELSE [cache |-> c, lru |-> l]
    IN  IF key \in DOMAIN e.cache THEN MoveToFront(e.cache, e.lru, key, value)
        ELSE InsertNew(e.cache, e.lru, cap + 1, key, value)

\* KVStore::put, in memory
PutEntry(c, l, cap, key, value) ==
    IF key \in DOMAIN c THEN MoveToFront(c, l, key, value)
    ELSE InsertNew(c, l, cap, key, value)

\* get without the move to the front
GetEntryNoPromote(c, l, key) ==
    IF key \notin DOMAIN c
    THEN [result |-> Nullopt, cache |-> c, lru |-> l]
    ELSE [result |-> Some(c[key].value), cache |-> c, lru |-> l]

\* KVStore::get, in memory: the result and the new index and list
GetEntry(c, l, key) ==
    IF key \notin DOMAIN c
    THEN [result |-> Nullopt, cache |-> c, lru |-> l]
    ELSE LET m == MoveToFront(c, l, key, c[key].value)
         IN  [result |-> Some(m.cache[key].value), cache |-> m.cache, lru |-> m.lru]

\* del without cache_.erase(it)
DelEntryListOnly(c, l, key) ==
    IF key \notin DOMAIN c
    THEN [result |-> FALSE, cache |-> c, lru |-> l]
    ELSE [result |-> TRUE, cache |-> c, lru |-> erase(l, c[key].lru_iter)]

\* KVStore::del, in memory
DelEntry(c, l, key) ==
    IF key \notin DOMAIN c
    THEN [result |-> FALSE, cache |-> c, lru |-> l]
    ELSE [result |-> TRUE,
          cache |-> Restrict(c, DOMAIN c \ {key}),
          lru |-> erase(l, c[key].lru_iter)]

\* KVStore::write_wal: the file's content after the call
write_wal(d, wf, operation, key, value) ==
    IF wf # "open" THEN d
    ELSE d \o operation \o <<" ">> \o key
           \o (IF value # << >> THEN <<" ">> \o value ELSE << >>)
           \o <<"\n">>

\* the parse with the value read as one token (iss >> value)
ParseRecordValueToken(line) ==
    LET skip == [kind |-> "skip", key |-> << >>, value |-> << >>]
        o == Extract(line, 1)
        k == Extract(line, o.next)
        v == Extract(line, k.next)
    IN  IF ~o.ok THEN skip
        ELSE IF o.token = OpPUT
             THEN IF ~k.ok THEN skip
                  ELSE [kind |-> "put", key |-> k.token, value |-> v.token]
        ELSE IF o.token = OpDEL
             THEN IF ~k.ok THEN skip
                  ELSE [kind |-> "del", key |-> k.token, value |-> << >>]
        ELSE IF o.token = OpCLEAR
             THEN [kind |-> "clear", key |-> << >>, value |-> << >>]
        ELSE skip

\* the parse taking a PUT or DEL line with no key as one with an empty key
ParseRecordEmptyKey(line) ==
    LET skip == [kind |-> "skip", key |-> << >>, value |-> << >>]
        o == Extract(line, 1)
        k == Extract(line, o.next)
        rest == SubSeq(line, k.next, Len(line))
        value == IF rest # << >> /\ rest[1] = " " THEN Tail(rest) ELSE rest
    IN  IF ~o.ok THEN skip
        ELSE IF o.token = OpPUT
             THEN [kind |-> "put", key |-> k.token, value |-> value]
        ELSE IF o.token = OpDEL
             THEN [kind |-> "del", key |-> k.token, value |-> << >>]
        ELSE IF o.token = OpCLEAR
             THEN [kind |-> "clear", key |-> << >>, value |-> << >>]
        ELSE skip

\* one line of the log as recover() reads it
ParseRecord(line) ==
    LET skip == [kind |-> "skip", key |-> << >>, value |-> << >>]
        o == Extract(line, 1)
        k == Extract(line, o.next)
        rest == SubSeq(line, k.next, Len(line))
        value == IF rest # << >> /\ rest[1] = " " THEN Tail(rest) ELSE rest
    IN  IF ~o.ok THEN skip
        ELSE IF o.token = OpPUT
             THEN IF ~k.ok THEN skip
                  ELSE [kind |-> "put", key |-> k.token, value |-> value]
        ELSE IF o.token = OpDEL
             THEN IF ~k.ok THEN skip
                  ELSE [kind |-> "del", key |-> k.token, value |-> << >>]
        ELSE IF o.token = OpCLEAR
             THEN [kind |-> "clear", key |-> << >>, value |-> << >>]
        ELSE skip

(***************************************************************************)
(* History variables.                                                      *)
(***************************************************************************)
\* where key stands in u (1: used latest); a key that was never used is last
Pos(u, key) ==
    IF \E i \in 1..Len(u) : u[i] = key
    THEN CHOOSE i \in 1..Len(u) : u[i] = key
    ELSE Len(u) + 1

\* the key of S whose last put or get is the oldest (<< >> when S is empty)
Oldest(u, S) ==
    IF S = {} THEN << >>
    ELSE CHOOSE k \in S : \A r \in S : Pos(u, r) <= Pos(u, k)

\* present: the key was in the index when the call was made;
\* size: the number of entries when the call was made;
\* oldest: the least recently used resident key when the call was made;
\* removed: the keys the call took out of the index
Call(op, t, key, value, result, by, c2) ==
    [op |-> op, t |-> t, key |-> key, value |-> value, ret |-> result, by |-> by,
     present |-> key \in DOMAIN cache_, size |-> Cardinality(DOMAIN cache_),
     oldest |-> Oldest(useOrder, DOMAIN cache_),
     removed |-> DOMAIN cache_ \ DOMAIN c2]

\* key becomes the latest used key
Touch(u, key) ==
    LET Other(e) == e # key
    IN  <<key>> \o SelectSeq(u, Other)

\* fresh: no call was made on this cache object yet; recovered: its first
\* call was a recover() that opened the log; gets: get was called on it;
\* found: the number of records the log held when it was constructed
NewLife == [fresh |-> TRUE, recovered |-> FALSE, gets |-> FALSE, found |-> 0]

Used(g) == [life EXCEPT !.fresh = FALSE, !.gets = @ \/ g]

conf == << max_capacity_, wal_path_, fs_ok >>

\* the second cache object as constructed: empty, its log open and empty
NewTwin == [cache |-> EmptyMap, lru |-> << >>, disk |-> << >>, ret |-> "void"]

(***************************************************************************)
(* std::lock_guard<std::mutex> lock(mutex_), the first statement of every  *)
(* public operation but recover: the mutex is taken when it is free and    *)
(* released when the operation returns.                                    *)
(***************************************************************************)
\* the constructor of the guard
Lock(t) == mutex_ = Free /\ mutex_' = t

\* the destructor of the guard, at the return
Unlock(t) == mutex_ = t /\ mutex_' = Free

\* a whole operation as one step: the mutex is taken and released within it
Guarded == mutex_ = Free /\ UNCHANGED mutex_

(***************************************************************************)
(* The bodies of the public operations, from after the lock_guard to the   *)
(* return. by is "caller" for a call from outside and "recover" for a call *)
(* made by recover()'s replay. The mutex, the caller's own variables (pc,  *)
(* iter, wal_in, temp_wal) and the history variable life are set by the    *)
(* action that makes the call.                                             *)
(***************************************************************************)
\* put refusing the call when the log is not open
put_needs_wal(t, key, value, by) ==
    IF wal_file_ # "open"
    THEN /\ last' = Call("put", t, key, value, FALSE, by, cache_)
         /\ UNCHANGED << cache_, lru_list_, lastPut, disk, useOrder,
                         wal_file_, conf, prev, gen >>
    ELSE /\ LET s == PutEntry(cache_, lru_list_, max_capacity_, key, value)
            IN  /\ cache_' = s.cache
                /\ lru_list_' = s.lru
                /\ lastPut' = (key :> value) @@ Restrict(lastPut, DOMAIN lastPut \cap DOMAIN s.cache)
         /\ disk' = write_wal(disk, wal_file_, OpPUT, key, value)
         /\ last' = Call("put", t, key, value, TRUE, by, cache_')
         /\ useOrder' = Touch(useOrder, key)
         /\ UNCHANGED << wal_file_, conf, prev, gen >>

\* put writing no record when the key is resident with the value given
put_quiet_update(t, key, value, by) ==
    /\ LET s == PutEntry(cache_, lru_list_, max_capacity_, key, value)
       IN  /\ cache_' = s.cache
           /\ lru_list_' = s.lru
           /\ lastPut' = (key :> value) @@ Restrict(lastPut, DOMAIN lastPut \cap DOMAIN s.cache)
    /\ disk' = IF key \in DOMAIN cache_ /\ cache_[key].value = value
               THEN disk
               ELSE write_wal(disk, wal_file_, OpPUT, key, value)
    /\ last' = Call("put", t, key, value, TRUE, by, cache_')
    /\ useOrder' = Touch(useOrder, key)
    /\ UNCHANGED << wal_file_, conf, prev, gen >>

\* KVStore::put
put(t, key, value, by) ==
    /\ LET s == PutEntry(cache_, lru_list_, max_capacity_, key, value)
       IN  /\ cache_' = s.cache
           /\ lru_list_' = s.lru
           /\ lastPut' = (key :> value) @@ Restrict(lastPut, DOMAIN lastPut \cap DOMAIN s.cache)
    /\ disk' = write_wal(disk, wal_file_, OpPUT, key, value)
    /\ last' = Call("put", t, key, value, TRUE, by, cache_')
    /\ useOrder' = Touch(useOrder, key)
    /\ UNCHANGED << wal_file_, conf, prev, gen >>

\* KVStore::get
get(t, key) ==
    /\ LET s == GetEntry(cache_, lru_list_, key)
       IN  /\ cache_' = s.cache
           /\ lru_list_' = s.lru
           /\ last' = Call("get", t, key, << >>, s.result, "caller", s.cache)
    /\ useOrder' = Touch(useOrder, key)
    /\ UNCHANGED << wal_file_, disk, lastPut, conf, prev, gen >>

\* del writing its record also when the key is not present
del_logs_always(t, key, by) ==
    /\ LET s == DelEntry(cache_, lru_list_, key)
       IN  /\ cache_' = s.cache
           /\ lru_list_' = s.lru
           /\ disk' = write_wal(disk, wal_file_, OpDEL, key, << >>)
           /\ last' = Call("del", t, key, << >>, s.result, by, s.cache)
           /\ lastPut' = IF s.result THEN Restrict(lastPut, DOMAIN lastPut \ {key})
                         ELSE lastPut
    /\ UNCHANGED << wal_file_, useOrder, conf, prev, gen >>

\* KVStore::del
del(t, key, by) ==
    /\ LET s == DelEntry(cache_, lru_list_, key)
       IN  /\ cache_' = s.cache
           /\ lru_list_' = s.lru
           /\ disk' = IF s.result THEN write_wal(disk, wal_file_, OpDEL, key, << >>)
                      ELSE disk
           /\ last' = Call("del", t, key, << >>, s.result, by, s.cache)
           /\ lastPut' = IF s.result THEN Restrict(lastPut, DOMAIN lastPut \ {key})
                         ELSE lastPut
    /\ UNCHANGED << wal_file_, useOrder, conf, prev, gen >>

\* exists moving the key it finds to the front, as get does
exists_touching(t, key) ==
    /\ LET s == GetEntry(cache_, lru_list_, key)
       IN  /\ cache_' = s.cache
           /\ lru_list_' = s.lru
    /\ last' = Call("exists", t, key, << >>, key \in DOMAIN cache_, "caller", cache_)
    /\ UNCHANGED << wal_file_, disk, useOrder, lastPut, conf, prev, gen >>

\* KVStore::exists
exists(t, key) ==
    /\ last' = Call("exists", t, key, << >>, key \in DOMAIN cache_, "caller", cache_)
    /\ UNCHANGED << cache_, lru_list_, wal_file_, disk, useOrder, lastPut,
                    conf, prev, gen >>

\* KVStore::size
size(t) ==
    /\ last' = Call("size", t, << >>, << >>, CacheSize(cache_), "caller", cache_)
    /\ UNCHANGED << cache_, lru_list_, wal_file_, disk, useOrder, lastPut,
                    conf, prev, gen >>

\* clear without cache_.clear()
clear_list_only(t, by) ==
    /\ lru_list_' = << >>
    /\ disk' = write_wal(disk, wal_file_, OpCLEAR, << >>, << >>)
    /\ last' = Call("clear", t, << >>, << >>, "void", by, cache_)
    /\ UNCHANGED << cache_, wal_file_, useOrder, lastPut, conf, prev, gen >>

\* KVStore::clear
clear(t, by) ==
    /\ cache_' = EmptyMap
    /\ lru_list_' = << >>
    /\ disk' = write_wal(disk, wal_file_, OpCLEAR, << >>, << >>)
    /\ last' = Call("clear", t, << >>, << >>, "void", by, EmptyMap)
    /\ lastPut' = EmptyMap
    /\ UNCHANGED << wal_file_, useOrder, conf, prev, gen >>

(***************************************************************************)
(* A caller that is not inside a call makes one. The log holds at most     *)
(* MaxLog records: a call that would append one more is not made.          *)
(***************************************************************************)
LogHasRoom == wal_file_ = "open" => NumRecords(disk) < MaxLog

Put(t) ==
    /\ pc[t] = "idle"
    /\ Guarded
    /\ LogHasRoom
    /\ \E key \in Keys, value \in Values : put(t, key, value, "caller")
    /\ life' = Used(FALSE)
    /\ UNCHANGED << pc, iter, wal_in, temp_wal, twin >>

Get(t) ==
    /\ pc[t] = "idle"
    /\ Guarded
    /\ \E key \in Keys : get(t, key)
    /\ life' = Used(TRUE)
    /\ UNCHANGED << pc, iter, wal_in, temp_wal, twin >>

Del(t) ==
    /\ pc[t] = "idle"
    /\ Guarded
    /\ LogHasRoom
    /\ \E key \in Keys : del(t, key, "caller")
    /\ life' = Used(FALSE)
    /\ UNCHANGED << pc, iter, wal_in, temp_wal, twin >>

Exists(t) ==
    /\ pc[t] = "idle"
    /\ Guarded
    /\ \E key \in Keys : exists(t, key)
    /\ life' = Used(FALSE)
    /\ UNCHANGED << pc, iter, wal_in, temp_wal, twin >>

Size(t) ==
    /\ pc[t] = "idle"
    /\ Guarded
    /\ size(t)
    /\ life' = Used(FALSE)
    /\ UNCHANGED << pc, iter, wal_in, temp_wal, twin >>

Clear(t) ==
    /\ pc[t] = "idle"
    /\ Guarded
    /\ LogHasRoom
    /\ clear(t, "caller")
    /\ life' = Used(FALSE)
    /\ UNCHANGED << pc, iter, wal_in, temp_wal, twin >>

(***************************************************************************)
(* KVStore::recover. It takes no lock itself: the calls it makes do.       *)
(***************************************************************************)
\* recover without the move of wal_file_ into temp_wal
RecoverBeginKeepsLog(t) ==
    /\ pc[t] = "idle"
    /\ IF wal_path_ = << >> \/ ~fs_ok
       THEN /\ last' = Call("recover", t, << >>, << >>, FALSE, "caller", cache_)
            /\ life' = Used(FALSE)
            /\ UNCHANGED << pc, wal_in, temp_wal >>
       ELSE /\ temp_wal' = [temp_wal EXCEPT ![t] = wal_file_]
            /\ wal_in' = [wal_in EXCEPT ![t] = 1]
            /\ pc' = [pc EXCEPT ![t] = "replay"]
            /\ last' = Call("recover_open", t, << >>, << >>, "void", "caller", cache_)
            /\ life' = [life EXCEPT !.fresh = FALSE, !.recovered = life.fresh]
    /\ UNCHANGED << cache_, lru_list_, wal_file_, mutex_, disk, useOrder, lastPut, iter,
                    conf, prev, gen, twin >>

\* recover with a lock_guard of its own, held through the replay
RecoverBeginLocked(t) ==
    /\ pc[t] = "idle"
    /\ IF wal_path_ = << >> \/ ~fs_ok
       THEN /\ last' = Call("recover", t, << >>, << >>, FALSE, "caller", cache_)
            /\ life' = Used(FALSE)
            /\ UNCHANGED << wal_file_, mutex_, pc, wal_in, temp_wal >>
       ELSE /\ Lock(t)
            /\ temp_wal' = [temp_wal EXCEPT ![t] = wal_file_]
            /\ wal_file_' = "null"
            /\ wal_in' = [wal_in EXCEPT ![t] = 1]
            /\ pc' = [pc EXCEPT ![t] = "replay"]
            /\ last' = Call("recover_open", t, << >>, << >>, "void", "caller", cache_)
            /\ life' = [life EXCEPT !.fresh = FALSE, !.recovered = life.fresh]
    /\ UNCHANGED << cache_, lru_list_, disk, useOrder, lastPut, iter,
                    conf, prev, gen, twin >>

\* up to the loop: the two early returns, the ifstream, the move of wal_file_
RecoverBegin(t) ==
    /\ pc[t] = "idle"
    /\ IF wal_path_ = << >> \/ ~fs_ok
       THEN /\ last' = Call("recover", t, << >>, << >>, FALSE, "caller", cache_)
            /\ life' = Used(FALSE)
            /\ UNCHANGED << wal_file_, pc, wal_in, temp_wal >>
       ELSE /\ temp_wal' = [temp_wal EXCEPT ![t] = wal_file_]
            /\ wal_file_' = "null"
            /\ wal_in' = [wal_in EXCEPT ![t] = 1]
            /\ pc' = [pc EXCEPT ![t] = "replay"]
            /\ last' = Call("recover_open", t, << >>, << >>, "void", "caller", cache_)
            /\ life' = [life EXCEPT !.fresh = FALSE, !.recovered = life.fresh]
    /\ UNCHANGED << cache_, lru_list_, mutex_, disk, useOrder, lastPut, iter,
                    conf, prev, gen, twin >>

\* one turn of the loop: a line is read, parsed and applied or skipped
RecoverLine(t) ==
    /\ pc[t] = "replay"
    /\ LET g == GetLine(disk, wal_in[t])
           r == ParseRecord(g.line)
       IN  /\ g.ok
           /\ wal_in' = [wal_in EXCEPT ![t] = g.next]
           /\ CASE r.kind = "put" -> Guarded /\ put(t, r.key, r.value, "recover")
                [] r.kind = "del" -> Guarded /\ del(t, r.key, "recover")
                [] r.kind = "clear" -> Guarded /\ clear(t, "recover")
                [] OTHER ->
                     /\ last' = Call("skip", t, << >>, << >>, "void", "recover", cache_)
                     /\ UNCHANGED << cache_, lru_list_, mutex_, wal_file_, disk,
                                     useOrder, lastPut, conf, prev, gen >>
    /\ UNCHANGED << pc, iter, temp_wal, life, twin >>

\* recover without the move of temp_wal back into wal_file_
RecoverEndLeavesLogOff(t) ==
    /\ pc[t] = "replay"
    /\ ~GetLine(disk, wal_in[t]).ok
    /\ temp_wal' = [temp_wal EXCEPT ![t] = "null"]
    /\ wal_in' = [wal_in EXCEPT ![t] = 0]
    /\ pc' = [pc EXCEPT ![t] = "idle"]
    /\ last' = Call("recover", t, << >>, << >>, TRUE, "caller", cache_)
    /\ UNCHANGED << cache_, lru_list_, wal_file_, mutex_, disk, useOrder, lastPut, iter,
                    life, conf, prev, gen, twin >>

\* recover returning false when no record was replayed
RecoverEndFalseOnEmpty(t) ==
    /\ pc[t] = "replay"
    /\ ~GetLine(disk, wal_in[t]).ok
    /\ wal_file_' = temp_wal[t]
    /\ temp_wal' = [temp_wal EXCEPT ![t] = "null"]
    /\ wal_in' = [wal_in EXCEPT ![t] = 0]
    /\ pc' = [pc EXCEPT ![t] = "idle"]
    /\ last' = Call("recover", t, << >>, << >>, disk # << >>, "caller", cache_)
    /\ UNCHANGED << cache_, lru_list_, mutex_, disk, useOrder, lastPut, iter, life,
                    conf, prev, gen, twin >>

\* getline fails: the stream is closed, wal_file_ is moved back, true is returned
RecoverEnd(t) ==
    /\ pc[t] = "replay"
    /\ ~GetLine(disk, wal_in[t]).ok
    /\ wal_file_' = temp_wal[t]
    /\ temp_wal' = [temp_wal EXCEPT ![t] = "null"]
    /\ wal_in' = [wal_in EXCEPT ![t] = 0]
    /\ pc' = [pc EXCEPT ![t] = "idle"]
    /\ last' = Call("recover", t, << >>, << >>, TRUE, "caller", cache_)
    /\ UNCHANGED << cache_, lru_list_, mutex_, disk, useOrder, lastPut, iter, life,
                    conf, prev, gen, twin >>

(***************************************************************************)
(* The cache object is destroyed and a new one is constructed with the     *)
(* same max_capacity and wal_path: KVStore::~KVStore, KVStore::KVStore.    *)
(***************************************************************************)
OpenWal(path, ok) == IF path # << >> /\ ok THEN "open" ELSE "null"

Restart ==
    /\ \A t \in Threads : pc[t] = "idle"
    /\ gen < MaxRestarts
    /\ gen' = gen + 1
    /\ prev' = [contents |-> Contents(cache_), order |-> Order(lru_list_),
                life |-> life, logging |-> wal_file_ = "open"]
    /\ cache_' = EmptyMap
    /\ lru_list_' = << >>
    /\ wal_file_' = OpenWal(wal_path_, fs_ok)
    /\ life' = [NewLife EXCEPT !.found = NumRecords(disk)]
    /\ useOrder' = << >>
    /\ lastPut' = EmptyMap
    /\ last' = Call("restart", 0, << >>, << >>, "void", "caller", EmptyMap)
    /\ UNCHANGED << mutex_, disk, pc, iter, wal_in, temp_wal, conf, twin >>

(***************************************************************************)
(* The state after construction: KVStore::KVStore.                         *)
(***************************************************************************)
Constructed(threads, caps, modes) ==
    /\ max_capacity_ \in caps
    /\ \E mode \in modes :
          /\ wal_path_ = IF mode = "disabled" THEN << >> ELSE WalPath
          /\ fs_ok = (mode # "unavailable")
    /\ cache_ = EmptyMap
    /\ lru_list_ = << >>
    /\ wal_file_ = OpenWal(wal_path_, fs_ok)
    /\ mutex_ = Free
    /\ disk = << >>
    /\ wal_in = [t \in threads |-> 0]
    /\ temp_wal = [t \in threads |-> "null"]
    /\ last = [op |-> "init", t |-> 0, key |-> << >>, value |-> << >>, ret |-> "void",
               by |-> "caller", present |-> FALSE, size |-> 0, oldest |-> << >>,
               removed |-> {}]
    /\ useOrder = << >>
    /\ lastPut = EmptyMap
    /\ life = NewLife
    /\ prev = [contents |-> EmptyMap, order |-> << >>, life |-> NewLife,
               logging |-> FALSE]
    /\ gen = 0
    /\ twin = NewTwin

(***************************************************************************)
(* One caller, any calls on one cache object; the log is disabled, enabled *)
(* or cannot be opened.                                                    *)
(***************************************************************************)
Init ==
    /\ Constructed({1}, 1..MaxCap, {"disabled", "enabled", "unavailable"})
    /\ pc = [t \in {1} |-> "idle"]
    /\ iter = [t \in {1} |-> 0]

Next ==
    \/ \E t \in Threads : Put(t)
    \/ \E t \in Threads : Get(t)
    \/ \E t \in Threads : Del(t)
    \/ \E t \in Threads : Exists(t)
    \/ \E t \in Threads : Size(t)
    \/ \E t \in Threads : Clear(t)
    \/ \E t \in Threads : RecoverBegin(t)
    \/ \E t \in Threads : RecoverLine(t)
    \/ \E t \in Threads : RecoverEnd(t)

Spec == Init /\ [][Next]_vars

(***************************************************************************)
(* Properties of the calls of one caller (Spec).                           *)
(***************************************************************************)
Full == CacheSize(cache_) = max_capacity_

\* C1: after every call of put, get, del, exists, size, clear and recover
\* (and after every put, del and clear that recover makes), the number of
\* stored entries, which is what size() returns, is at most max_capacity.
C1_CapacityInvariant ==
    /\ CacheSize(cache_) <= max_capacity_
    /\ last.op = "size" => last.ret <= max_capacity_

\* C1 witness: a put of a new key into a full cache has returned and the
\* cache is full again.
C1_Witness ==
    /\ last.op = "put"
    /\ ~last.present
    /\ last.size = max_capacity_
    /\ Full

GetStep ==
    (last'.op = "get" /\ last'.present) =>
        /\ Order(lru_list_') = Touch(Order(lru_list_), last'.key)
        /\ last'.ret = Some(cache_[last'.key].value)

\* the step after a successful get of the least recently used key of a full
\* cache is a put of a key that is not present
PutAfterGetOfLRU ==
    /\ last.op = "get"
    /\ last.present
    /\ last.oldest = last.key
    /\ Full
    /\ last'.op = "put"
    /\ ~last'.present

\* that put evicts the key that was second-least-recently used, not the key
\* of the get
EvictsSecond ==
    /\ last.key \in DOMAIN cache_'
    /\ last'.removed = {Oldest(useOrder, DOMAIN cache_ \ {last.key})}

\* C3 as stated: a successful get(k) makes k the most recently used key, and
\* if the cache is full and k was the least recently used key, the next put
\* of a new key evicts the second-least-recently used key and k stays.
C3_AsStated == [][GetStep /\ (PutAfterGetOfLRU => EvictsSecond)]_vars

\* C3 amended: the same for a cache of capacity at least 2 (a full cache of
\* capacity 1 holds k alone, and the put evicts k).
C3_GetPromotes ==
    [][GetStep /\ ((max_capacity_ >= 2 /\ PutAfterGetOfLRU) => EvictsSecond)]_vars

\* C3 witness: the least recently used key of a full cache of capacity at
\* least 2 was read by get and is at the front of the list.
C3_Witness ==
    /\ last.op = "get"
    /\ last.present
    /\ last.oldest = last.key
    /\ max_capacity_ >= 2
    /\ Full
    /\ lru_list_[1].key = last.key

\* C4: a put on a present key, also at full capacity, leaves the size and
\* the set of keys unchanged, evicts nothing, leaves every other key's value
\* unchanged, stores the new value and moves the key to the front.
C4_UpdateInPlace ==
    [][(last'.op = "put" /\ last'.present) =>
          /\ CacheSize(cache_') = CacheSize(cache_)
          /\ DOMAIN cache_' = DOMAIN cache_
          /\ last'.removed = {}
          /\ \A k \in DOMAIN cache_ \ {last'.key} : cache_'[k].value = cache_[k].value
          /\ cache_'[last'.key].value = last'.value
          /\ Order(lru_list_') = Touch(Order(lru_list_), last'.key)]_vars

\* C4 witness: a full cache of capacity at least 2 took a put on a present
\* key that was not at the front.
C4_Witness ==
    /\ last.op = "put"
    /\ last.present
    /\ last.size = max_capacity_
    /\ max_capacity_ >= 2
    /\ last.oldest = last.key
    /\ last.value # << >>
    /\ lru_list_[1].key = last.key

\* C5: put returns true; get returns the value of the key's last put when
\* the key was not deleted, cleared or evicted since, and nullopt when the
\* key is not present.
C5_PutGet ==
    /\ last.op = "put" => last.ret = TRUE
    /\ last.op = "get" =>
          /\ last.ret = IF last.key \in DOMAIN lastPut
                        THEN Some(lastPut[last.key]) ELSE Nullopt
          /\ ~last.present => last.ret = Nullopt

\* C5 witness: a get returned a non-empty value, the one of the last put.
C5_Witness ==
    /\ last.op = "get"
    /\ last.present
    /\ last.ret = Some(lastPut[last.key])
    /\ lastPut[last.key] # << >>

\* C6: del returns true exactly when the key is present at the call; after
\* a del that returned true the key is absent and the size is one less, and
\* an exists or a del of that key made next returns false.
C6_Delete ==
    [][/\ last'.op = "del" =>
            /\ last'.ret = (last'.key \in DOMAIN cache_)
            /\ last'.ret =>
                  /\ last'.key \notin DOMAIN cache_'
                  /\ CacheSize(cache_') = CacheSize(cache_) - 1
       /\ (last.op = "del" /\ last.ret /\ last'.op \in {"del", "exists"}
             /\ last'.key = last.key) => last'.ret = FALSE]_vars

\* C6 witness: a caller's del returned true and left another key behind.
C6_Witness ==
    /\ last.op = "del"
    /\ last.ret
    /\ last.by = "caller"
    /\ last.removed = {last.key}
    /\ CacheSize(cache_) >= 1

\* C7: after clear the cache is empty, whatever it held: size() is 0 and no
\* key that was present is present.
C7_Clear ==
    last.op = "clear" =>
        /\ CacheSize(cache_) = 0
        /\ \A k \in last.removed : k \notin DOMAIN cache_
        /\ lru_list_ = << >>

\* C7 witness: a caller's clear of a full cache has returned.
C7_Witness ==
    /\ last.op = "clear"
    /\ last.by = "caller"
    /\ last.size = max_capacity_
    /\ Cardinality(last.removed) = max_capacity_

(***************************************************************************)
(* The life of a log: a cache with its log enabled is used by one caller,  *)
(* destroyed, and constructed again over the same log. The caller follows  *)
(* the order of use the README gives: recover() is called, if at all, as   *)
(* the first call on a cache object, and a cache constructed over a log    *)
(* that was written before is recovered before it is used. life records    *)
(* what the object was asked to do.                                        *)
(***************************************************************************)
Ready == gen = 0 \/ life.recovered

InitWal ==
    /\ Constructed({1}, 1..MaxCap, {"enabled"})
    /\ pc = [t \in {1} |-> "idle"]
    /\ iter = [t \in {1} |-> 0]

NextWal ==
    \/ \E t \in Threads : Ready /\ Put(t)
    \/ \E t \in Threads : Ready /\ Get(t)
    \/ \E t \in Threads : Ready /\ Del(t)
    \/ \E t \in Threads : Ready /\ Clear(t)
    \/ \E t \in Threads : life.fresh /\ RecoverBegin(t)
    \/ \E t \in Threads : RecoverLine(t)
    \/ \E t \in Threads : RecoverEnd(t)
    \/ Restart

SpecWal == InitWal /\ [][NextWal]_vars

(***************************************************************************)
(* Properties of the life of a log (SpecWal).                              *)
(***************************************************************************)
\* recover() has just returned true on the second cache object, as its first
\* call; the first object started with an empty log and was logging
JustRecovered ==
    /\ last.op = "recover"
    /\ last.ret = TRUE
    /\ life.recovered
    /\ gen = 1
    /\ prev.logging
    /\ ~prev.life.recovered

\* C8: after put, del and clear calls only (evictions among them) on a
\* logging cache that started with an empty log, a new cache of the same
\* capacity over the same log holds, after recover(), the keys and values
\* the first cache held at its end.
C8_RecoveryRoundTrip ==
    (JustRecovered /\ ~prev.life.gets) => Contents(cache_) = prev.contents

\* C8 witness: the first cache was full and had evicted (more records of PUT
\* than its capacity), and the second cache has recovered its content, with
\* a value that holds spaces.
C8_Witness ==
    /\ JustRecovered
    /\ ~prev.life.gets
    /\ NumRecords(disk) > max_capacity_
    /\ CacheSize(cache_) = max_capacity_
    /\ Contents(cache_) = prev.contents
    /\ \E k \in DOMAIN cache_ : cache_[k].value # << >>

\* C9: the same for every sequence of put, get, del and clear calls on the
\* first cache, gets among them.
C9_FullReconstruction ==
    JustRecovered => Contents(cache_) = prev.contents

(***************************************************************************)
(* test_thread_safety: NumThreads workers, each running Cycles times       *)
(* put(key, value); get(key) on keys of its own, on one cache that can     *)
(* hold all the keys.                                                      *)
(***************************************************************************)
\* "key_<thread_id>_<i>" and "value_<thread_id>_<i>"
ThreadKey(t, i) == <<KeyChars[(t - 1) * Cycles + i]>>
ThreadValue(t, i) == <<"v", KeyChars[(t - 1) * Cycles + i]>>

\* a worker enters put or get: the lock_guard is constructed
WorkerLock(t) ==
    /\ pc[t] \in {"put_lock", "get_lock"}
    /\ Lock(t)
    /\ pc' = [pc EXCEPT ![t] = IF pc[t] = "put_lock" THEN "put" ELSE "get"]
    /\ UNCHANGED << cache_, lru_list_, wal_file_, disk, iter, wal_in, temp_wal,
                    last, useOrder, lastPut, life, conf, prev, gen, twin >>

\* store.put(key, value), from after the lock_guard to the return
WorkerPut(t) ==
    /\ pc[t] = "put"
    /\ Unlock(t)
    /\ put(t, ThreadKey(t, iter[t]), ThreadValue(t, iter[t]), "caller")
    /\ pc' = [pc EXCEPT ![t] = "get_lock"]
    /\ life' = Used(FALSE)
    /\ UNCHANGED << iter, wal_in, temp_wal, twin >>

\* auto result = store.get(key), from after the lock_guard to the return,
\* and the loop's ++i
WorkerGet(t) ==
    /\ pc[t] = "get"
    /\ Unlock(t)
    /\ get(t, ThreadKey(t, iter[t]))
    /\ pc' = [pc EXCEPT ![t] = IF iter[t] < Cycles THEN "put_lock" ELSE "done"]
    /\ iter' = [iter EXCEPT ![t] = IF iter[t] < Cycles THEN iter[t] + 1 ELSE iter[t]]
    /\ life' = Used(TRUE)
    /\ UNCHANGED << wal_in, temp_wal, twin >>

InitMT ==
    /\ Constructed(1..NumThreads, {NumThreads * Cycles, NumThreads * Cycles + 1},
                   {"disabled", "enabled"})
    /\ pc = [t \in 1..NumThreads |-> "put_lock"]
    /\ iter = [t \in 1..NumThreads |-> 1]

NextMT ==
    \/ \E t \in Threads : WorkerLock(t)
    \/ \E t \in Threads : WorkerPut(t)
    \/ \E t \in Threads : WorkerGet(t)

SpecMT == InitMT /\ [][NextMT]_vars

\* the cycles whose put has returned
PutDone(t) ==
    { i \in 1..Cycles : i < iter[t] \/ (i = iter[t] /\ pc[t] \in {"get_lock", "get", "done"}) }

\* C10: under every interleaving of the workers, each get returns the value
\* its thread has just put, no put is lost (every key whose put has returned
\* is present with its value, so at the end all are), and the number of
\* entries never exceeds max_capacity.
C10_ConcurrentSafety ==
    /\ CacheSize(cache_) <= max_capacity_
    /\ last.op = "get" =>
          \E i \in 1..Cycles : /\ last.key = ThreadKey(last.t, i)
                               /\ last.ret = Some(ThreadValue(last.t, i))
    /\ \A t \in Threads : \A i \in PutDone(t) :
          /\ ThreadKey(t, i) \in DOMAIN cache_
          /\ cache_[ThreadKey(t, i)].value = ThreadValue(t, i)
    /\ (\A t \in Threads : pc[t] = "done") => CacheSize(cache_) = NumThreads * Cycles

\* C10 witness: all workers are done after their cycles interleaved: the
\* first and last keys of workers 1 and 2 were read alternately.
C10_Witness ==
    /\ \A t \in Threads : pc[t] = "done"
    /\ last.op = "get"
    /\ LET P(k) == Pos(Order(lru_list_), k)
       IN  /\ P(ThreadKey(1, Cycles)) < P(ThreadKey(2, Cycles))
           /\ P(ThreadKey(2, Cycles)) < P(ThreadKey(1, 1))
           /\ P(ThreadKey(1, 1)) < P(ThreadKey(2, 1))

(***************************************************************************)
(* recover() racing with other callers: a cache with its log enabled is    *)
(* filled by thread 1 and destroyed; on the cache constructed next over    *)
(* the same log, thread 1 calls recover() first, and while it replays the  *)
(* other threads make calls, at most Cycles each (iter counts them).       *)
(***************************************************************************)
\* the whole loop of recover() on the index c and the list l, reading the
\* file content d from position pos
RECURSIVE Replay(_, _, _, _, _)
Replay(c, l, cap, d, pos) ==
    LET g == GetLine(d, pos)
        r == ParseRecord(g.line)
    IN  IF ~g.ok THEN [cache |-> c, lru |-> l]
        ELSE LET s == CASE r.kind = "put" -> PutEntry(c, l, cap, r.key, r.value)
                        [] r.kind = "del" -> DelEntry(c, l, r.key)
                        [] r.kind = "clear" -> [cache |-> EmptyMap, lru |-> << >>]
                        [] OTHER -> [cache |-> c, lru |-> l]
             IN  Replay(s.cache, s.lru, cap, d, g.next)

Replaying == \E r \in Threads : pc[r] = "replay"

\* a thread makes one more call while another thread is inside recover()
Counted(t) ==
    /\ pc[t] = "idle"
    /\ Replaying
    /\ iter[t] < Cycles
    /\ iter' = [iter EXCEPT ![t] = @ + 1]
    /\ Guarded
    /\ UNCHANGED << pc, wal_in, temp_wal, twin >>

CallPut(t) ==
    /\ Counted(t)
    /\ \E key \in Keys, value \in Values : put(t, key, value, "caller")
    /\ life' = Used(FALSE)

CallGet(t) ==
    /\ Counted(t)
    /\ \E key \in Keys : get(t, key)
    /\ life' = Used(TRUE)

CallDel(t) ==
    /\ Counted(t)
    /\ \E key \in Keys : del(t, key, "caller")
    /\ life' = Used(FALSE)

CallExists(t) ==
    /\ Counted(t)
    /\ \E key \in Keys : exists(t, key)
    /\ life' = Used(FALSE)

CallSize(t) ==
    /\ Counted(t)
    /\ size(t)
    /\ life' = Used(FALSE)

CallClear(t) ==
    /\ Counted(t)
    /\ clear(t, "caller")
    /\ life' = Used(FALSE)

InitRace ==
    /\ Constructed(1..NumThreads, 1..MaxCap, {"enabled"})
    /\ pc = [t \in 1..NumThreads |-> "idle"]
    /\ iter = [t \in 1..NumThreads |-> 0]

NextRace ==
    \/ gen = 0 /\ Put(1)
    \/ gen = 0 /\ Del(1)
    \/ gen = 0 /\ Clear(1)
    \/ gen = 0 /\ Restart
    \/ gen = 1 /\ life.fresh /\ RecoverBegin(1)
    \/ RecoverLine(1)
    \/ RecoverEnd(1)
    \/ \E t \in Threads \ {1} : CallPut(t)
    \/ \E t \in Threads \ {1} : CallGet(t)
    \/ \E t \in Threads \ {1} : CallDel(t)
    \/ \E t \in Threads \ {1} : CallExists(t)
    \/ \E t \in Threads \ {1} : CallSize(t)
    \/ \E t \in Threads \ {1} : CallClear(t)

SpecRace == InitRace /\ [][NextRace]_vars

(***************************************************************************)
(* Properties of recover() racing with other callers (SpecRace).           *)
(***************************************************************************)
\* the call made last is the first call any thread made while thread 1 is
\* inside recover(), and it is a get, an exists or a size
FirstReadDuringReplay ==
    /\ pc[1] = "replay"
    /\ last.by = "caller"
    /\ last.t # 1
    /\ last.op \in {"get", "exists", "size"}
    /\ iter[last.t] = 1
    /\ \A u \in Threads \ {last.t} : iter[u] = 0

\* what that call returns on the index c
ReadResult(c) ==
    CASE last.op = "size" -> CacheSize(c)
      [] last.op = "exists" -> last.key \in DOMAIN c
      [] last.op = "get" -> IF last.key \in DOMAIN c THEN Some(c[last.key].value)
                            ELSE Nullopt

\* C11: recover() is atomic for concurrent callers: a get, exists or size
\* that runs while another thread is inside recover() returns what it would
\* return either before the recover() (on the cache as constructed) or
\* after it (on the cache with the whole log replayed), never the result of
\* a partly replayed log.
C11_RecoverAtomic ==
    FirstReadDuringReplay =>
        last.ret \in { ReadResult(EmptyMap),
                       ReadResult(Replay(EmptyMap, << >>, max_capacity_, disk, 1).cache) }

\* the step is a put, a del that returned true or a clear made by a caller
\* (not by recover()'s replay)
LiveMutation ==
    /\ last'.by = "caller"
    /\ \/ last'.op = "put"
       \/ last'.op = "del" /\ last'.ret = TRUE
       \/ last'.op = "clear"

\* the step appended one record, kept what the log held, and the record
\* reads back as the call made
RecordAppended ==
    /\ Len(disk') > Len(disk)
    /\ SubSeq(disk', 1, Len(disk)) = disk
    /\ disk'[Len(disk')] = "\n"
    /\ NumRecords(disk') = NumRecords(disk) + 1
    /\ LET r == ParseRecord(SubSeq(disk', Len(disk) + 1, Len(disk') - 1))
       IN  /\ r.kind = last'.op
           /\ r.kind \in {"put", "del"} => r.key = last'.key
           /\ r.kind = "put" => r.value = last'.value

\* C17: on a log-enabled cache, under every interleaving with recover(),
\* every put, successful del and clear made by a caller and applied in
\* memory has its record appended to the log before the call returns.
C17_LiveMutationsLogged == [][LiveMutation => RecordAppended]_vars

(***************************************************************************)
(* More properties of the calls of one caller (Spec).                      *)
(***************************************************************************)
\* C12: recover() returns false exactly when no log path is configured or
\* the log cannot be opened, and then the index, the recency list, the
\* logging state and the log are unchanged; in every other case it returns
\* true, also when the log holds no record.
C12_RecoverResult ==
    [][last'.op = "recover" =>
          /\ last'.ret = ~(wal_path_ = << >> \/ ~fs_ok)
          /\ last'.ret = FALSE =>
                UNCHANGED << cache_, lru_list_, wal_file_, disk >>]_vars

\* C12 witness: recover() returned false on a cache that holds two keys and
\* whose log could not be opened.
C12_Witness ==
    /\ last.op = "recover"
    /\ last.ret = FALSE
    /\ wal_path_ # << >>
    /\ CacheSize(cache_) = 2
    /\ wal_file_ = "null"

(***************************************************************************)
(* Two cache objects of the same capacity given the same calls by one      *)
(* caller: this one, whose log is disabled or cannot be opened, and the    *)
(* twin, whose log is enabled. The twin's log holds at most MaxLog         *)
(* records.                                                                *)
(***************************************************************************)
\* the twin after put(key, value), get(key), del(key), exists(key), size()
\* and clear()
TwinPut(key, value) ==
    LET s == PutEntry(twin.cache, twin.lru, max_capacity_, key, value)
    IN  [cache |-> s.cache, lru |-> s.lru,
         disk |-> write_wal(twin.disk, "open", OpPUT, key, value), ret |-> TRUE]

TwinGet(key) ==
    LET s == GetEntry(twin.cache, twin.lru, key)
    IN  [cache |-> s.cache, lru |-> s.lru, disk |-> twin.disk, ret |-> s.result]

TwinDel(key) ==
    LET s == DelEntry(twin.cache, twin.lru, key)
    IN  [cache |-> s.cache, lru |-> s.lru,
         disk |-> IF s.result THEN write_wal(twin.disk, "open", OpDEL, key, << >>)
                  ELSE twin.disk,
         ret |-> s.result]

TwinExists(key) == [twin EXCEPT !.ret = key \in DOMAIN twin.cache]

TwinSize == [twin EXCEPT !.ret = CacheSize(twin.cache)]

TwinClear ==
    [cache |-> EmptyMap, lru |-> << >>,
     disk |-> write_wal(twin.disk, "open", OpCLEAR, << >>, << >>), ret |-> "void"]

TwinHasRoom == NumRecords(twin.disk) < MaxLog

\* the caller makes the same call on both objects
Both(t) ==
    /\ pc[t] = "idle"
    /\ Guarded
    /\ UNCHANGED << pc, iter, wal_in, temp_wal >>

BothPut(t) ==
    /\ Both(t)
    /\ TwinHasRoom
    /\ \E key \in Keys, value \in Values :
          /\ put(t, key, value, "caller")
          /\ twin' = TwinPut(key, value)
    /\ life' = Used(FALSE)

BothGet(t) ==
    /\ Both(t)
    /\ \E key \in Keys : get(t, key) /\ twin' = TwinGet(key)
    /\ life' = Used(TRUE)

BothDel(t) ==
    /\ Both(t)
    /\ TwinHasRoom
    /\ \E key \in Keys : del(t, key, "caller") /\ twin' = TwinDel(key)
    /\ life' = Used(FALSE)

BothExists(t) ==
    /\ Both(t)
    /\ \E key \in Keys : exists(t, key) /\ twin' = TwinExists(key)
    /\ life' = Used(FALSE)

BothSize(t) ==
    /\ Both(t)
    /\ size(t)
    /\ twin' = TwinSize
    /\ life' = Used(FALSE)

BothClear(t) ==
    /\ Both(t)
    /\ TwinHasRoom
    /\ clear(t, "caller")
    /\ twin' = TwinClear
    /\ life' = Used(FALSE)

InitEq ==
    /\ Constructed({1}, 1..MaxCap, {"disabled", "unavailable"})
    /\ pc = [t \in {1} |-> "idle"]
    /\ iter = [t \in {1} |-> 0]

NextEq ==
    \/ \E t \in Threads : BothPut(t)
    \/ \E t \in Threads : BothGet(t)
    \/ \E t \in Threads : BothDel(t)
    \/ \E t \in Threads : BothExists(t)
    \/ \E t \in Threads : BothSize(t)
    \/ \E t \in Threads : BothClear(t)

SpecEq == InitEq /\ [][NextEq]_vars

(***************************************************************************)
(* Properties of the two cache objects (SpecEq).                           *)
(***************************************************************************)
\* C13: with no log path, or with a log that cannot be opened, every put,
\* get, del, exists, size and clear returns what the same call returns on
\* the log-enabled twin and leaves the same index and recency list; nothing
\* is written.
C13_NoLogSameBehaviour ==
    /\ last.ret = twin.ret
    /\ cache_ = twin.cache
    /\ lru_list_ = twin.lru
    /\ wal_file_ = "null"
    /\ disk = << >>

\* C13 witness: the twin's log is full and holds a DEL record, the caches
\* are full, a key was evicted, and the last call was a get that found its
\* key on a cache whose log could not be opened.
C13_Witness ==
    /\ last.op = "get"
    /\ last.present
    /\ wal_path_ # << >>
    /\ NumRecords(twin.disk) = MaxLog
    /\ max_capacity_ = 1
    /\ \E i \in 1..Len(twin.disk) : twin.disk[i] = "D"
    /\ twin.ret = Some(<<" ", "y", " ", "z">>)

\* C14: in every state reachable by put, get, del, clear and recover calls,
\* the keys of the index are the keys of the recency list, the list holds no
\* key (and no node) twice, and each index entry's handle designates the
\* list node that holds its own key.
C14_IndexListConsistent ==
    /\ DOMAIN cache_ = { lru_list_[i].key : i \in 1..Len(lru_list_) }
    /\ \A i, j \in 1..Len(lru_list_) :
          i # j => /\ lru_list_[i].key # lru_list_[j].key
                   /\ lru_list_[i].node # lru_list_[j].node
    /\ \A k \in DOMAIN cache_ :
          \E i \in 1..Len(lru_list_) : /\ lru_list_[i].node = cache_[k].lru_iter
                                       /\ lru_list_[i].key = k

\* C14 witness: a put replayed by recover() has evicted a key from a full
\* cache of capacity 2, and the new key sits at the front in the node the
\* evicted key had.
C14_Witness ==
    /\ last.op = "put"
    /\ last.by = "recover"
    /\ last.removed # {}
    /\ max_capacity_ = 2
    /\ Len(lru_list_) = 2
    /\ lru_list_[1].key = last.key
    /\ lru_list_[1].node < lru_list_[2].node

\* the step is an exists, a size, or a get of a key that is not present
ReadOnlyStep ==
    \/ last'.op \in {"exists", "size"}
    \/ last'.op = "get" /\ ~last'.present

\* the step after an exists on the least recently used key of a full cache
\* is a put of a key that is not present
PutAfterExistsOfLRU ==
    /\ last.op = "exists"
    /\ last.present
    /\ last.oldest = last.key
    /\ Full
    /\ last'.op = "put"
    /\ ~last'.present

\* C15: exists and size, and get of a key that is not present, leave the
\* index, every stored value, the recency order and the log unchanged, and
\* return what the index holds; an exists on the least recently used key
\* does not protect it: the next put of a new key into the full cache
\* evicts that key.
C15_ReadOnlyFrame ==
    [][/\ ReadOnlyStep =>
            /\ UNCHANGED << cache_, lru_list_, wal_file_, disk >>
            /\ last'.op = "exists" => last'.ret = (last'.key \in DOMAIN cache_)
            /\ last'.op = "size" => last'.ret = CacheSize(cache_)
            /\ last'.op = "get" => last'.ret = Nullopt
       /\ PutAfterExistsOfLRU => last'.removed = {last.key}]_vars

\* C15 witness: on a full logging cache of capacity 2 an exists has found
\* the least recently used key, which is still at the back of the list.
C15_Witness ==
    /\ last.op = "exists"
    /\ last.ret = TRUE
    /\ last.oldest = last.key
    /\ max_capacity_ = 2
    /\ Full
    /\ lru_list_[2].key = last.key
    /\ wal_file_ = "open"
    /\ disk # << >>

(***************************************************************************)
(* Concurrent callers on one log-enabled cache: each thread makes at most  *)
(* Cycles calls (iter counts them). A call is invoked, waits for the       *)
(* mutex, takes it, and runs from after the lock_guard to its return,      *)
(* where the mutex is released.                                            *)
(***************************************************************************)
\* a step that is not a call's body: what it records in last
Mark(op, t) == Call(op, t, << >>, << >>, "void", "caller", cache_)

\* a thread calls put, get, del, exists, size or clear
Invoke(t) ==
    /\ pc[t] = "idle"
    /\ iter[t] < Cycles
    /\ pc' = [pc EXCEPT ![t] = "call"]
    /\ iter' = [iter EXCEPT ![t] = @ + 1]
    /\ last' = Mark("invoke", t)
    /\ UNCHANGED << cache_, lru_list_, wal_file_, mutex_, disk, wal_in, temp_wal,
                    useOrder, lastPut, life, conf, prev, gen, twin >>

\* the lock_guard of the call is constructed
Acquire(t) ==
    /\ pc[t] = "call"
    /\ Lock(t)
    /\ pc' = [pc EXCEPT ![t] = "locked"]
    /\ last' = Mark("lock", t)
    /\ UNCHANGED << cache_, lru_list_, wal_file_, disk, iter, wal_in, temp_wal,
                    useOrder, lastPut, life, conf, prev, gen, twin >>

\* the call runs to its return
Return(t) ==
    /\ pc[t] = "locked"
    /\ Unlock(t)
    /\ pc' = [pc EXCEPT ![t] = "idle"]
    /\ UNCHANGED << iter, wal_in, temp_wal, twin >>

DoPut(t) ==
    /\ Return(t)
    /\ \E key \in Keys, value \in Values : put(t, key, value, "caller")
    /\ life' = Used(FALSE)

DoGet(t) ==
    /\ Return(t)
    /\ \E key \in Keys : get(t, key)
    /\ life' = Used(TRUE)

DoDel(t) ==
    /\ Return(t)
    /\ \E key \in Keys : del(t, key, "caller")
    /\ life' = Used(FALSE)

DoExists(t) ==
    /\ Return(t)
    /\ \E key \in Keys : exists(t, key)
    /\ life' = Used(FALSE)

DoSize(t) ==
    /\ Return(t)
    /\ size(t)
    /\ life' = Used(FALSE)

DoClear(t) ==
    /\ Return(t)
    /\ clear(t, "caller")
    /\ life' = Used(FALSE)

InitConc ==
    /\ Constructed(1..NumThreads, 1..MaxCap, {"enabled"})
    /\ pc = [t \in 1..NumThreads |-> "idle"]
    /\ iter = [t \in 1..NumThreads |-> 0]

NextConc ==
    \/ \E t \in Threads : Invoke(t)
    \/ \E t \in Threads : Acquire(t)
    \/ \E t \in Threads : DoPut(t)
    \/ \E t \in Threads : DoGet(t)
    \/ \E t \in Threads : DoDel(t)
    \/ \E t \in Threads : DoExists(t)
    \/ \E t \in Threads : DoSize(t)
    \/ \E t \in Threads : DoClear(t)

SpecConc == InitConc /\ [][NextConc]_vars

(***************************************************************************)
(* Properties of concurrent callers (SpecConc).                            *)
(***************************************************************************)
\* C16: on a log-enabled cache, under every interleaving of the callers,
\* each put, each del that returns true and each clear appends, in the
\* critical section in which it takes effect, exactly one record that reads
\* back as that call, after the records already there; every other step (a
\* get, an exists, a size, a del that returns false, and the eviction a put
\* makes) appends nothing. The log is thus the sequence of the successful
\* mutations in the order they took effect.
C16_LogIsMutationSequence ==
    [][/\ LiveMutation => RecordAppended
       /\ ~LiveMutation => disk' = disk]_vars

\* C16 witness: both threads have made all their calls; one call wrote no
\* record, a put of a value with spaces and a del that returned true wrote
\* theirs, and the last call, a clear by thread 2, wrote the last record.
C16_Witness ==
    /\ \A t \in Threads : iter[t] = Cycles /\ pc[t] = "idle"
    /\ last.op = "clear"
    /\ last.t = 2
    /\ max_capacity_ = 1
    /\ NumRecords(disk) = NumThreads * Cycles - 1
    /\ \E i \in 1..Len(disk) : disk[i] = "D"
    /\ \E i \in 1..Len(disk) : disk[i] = "z"

(***************************************************************************)
(* Termination: a cache is constructed over the log a previous object      *)
(* left; thread 1 may call recover() as the first call on it, and every    *)
(* other thread makes at most Cycles calls. recover() is followed through  *)
(* the lock_guard of each put, del and clear it calls.                     *)
(***************************************************************************)
\* the logs left by a previous object of any capacity: nothing, or the
\* records of put(key, value), del(key), clear()
LeftLogs ==
    { << >> } \cup
    { write_wal(write_wal(write_wal(<< >>, "open", OpPUT, key, value),
                          "open", OpDEL, key, << >>),
                "open", OpCLEAR, << >>, << >>) : key \in Keys, value \in Values }

\* recover() reads a line; a malformed line is passed over, and for a PUT,
\* DEL or CLEAR line put, del or clear is called and constructs its
\* lock_guard
RecoverLock(t) ==
    /\ pc[t] = "replay"
    /\ \E g \in {GetLine(disk, wal_in[t])} : \E r \in {ParseRecord(g.line)} :
           /\ g.ok
           /\ IF r.kind = "skip"
              THEN /\ wal_in' = [wal_in EXCEPT ![t] = g.next]
                   /\ last' = Mark("skip", t)
                   /\ UNCHANGED << mutex_, pc >>
              ELSE /\ Lock(t)
                   /\ pc' = [pc EXCEPT ![t] = "replay_locked"]
                   /\ last' = Mark("lock", t)
                   /\ UNCHANGED wal_in
    /\ UNCHANGED << cache_, lru_list_, wal_file_, disk, iter, temp_wal,
                    useOrder, lastPut, life, conf, prev, gen, twin >>

\* the put, del or clear called by recover() runs to its return
RecoverApply(t) ==
    /\ pc[t] = "replay_locked"
    /\ Unlock(t)
    /\ \E g \in {GetLine(disk, wal_in[t])} : \E r \in {ParseRecord(g.line)} :
           /\ wal_in' = [wal_in EXCEPT ![t] = g.next]
           /\ CASE r.kind = "put" -> put(t, r.key, r.value, "recover")
                [] r.kind = "del" -> del(t, r.key, "recover")
                [] r.kind = "clear" -> clear(t, "recover")
    /\ pc' = [pc EXCEPT ![t] = "replay"]
    /\ UNCHANGED << iter, temp_wal, life, twin >>

InitLive ==
    /\ max_capacity_ \in 1..MaxCap
    /\ wal_path_ = WalPath
    /\ fs_ok = TRUE
    /\ cache_ = EmptyMap
    /\ lru_list_ = << >>
    /\ wal_file_ = OpenWal(wal_path_, fs_ok)
    /\ mutex_ = Free
    /\ disk \in LeftLogs
    /\ pc = [t \in 1..NumThreads |-> "idle"]
    /\ iter = [t \in 1..NumThreads |-> 0]
    /\ wal_in = [t \in 1..NumThreads |-> 0]
    /\ temp_wal = [t \in 1..NumThreads |-> "null"]
    /\ last = [op |-> "init", t |-> 0, key |-> << >>, value |-> << >>, ret |-> "void",
               by |-> "caller", present |-> FALSE, size |-> 0, oldest |-> << >>,
               removed |-> {}]
    /\ useOrder = << >>
    /\ lastPut = EmptyMap
    /\ life = [NewLife EXCEPT !.found = NumRecords(disk)]
    /\ prev = [contents |-> EmptyMap, order |-> << >>, life |-> NewLife,
               logging |-> FALSE]
    /\ gen = 0
    /\ twin = NewTwin

\* a call that has taken the mutex runs to its return
Finish(t) ==
    \/ DoPut(t)
    \/ DoGet(t)
    \/ DoDel(t)
    \/ DoExists(t)
    \/ DoSize(t)
    \/ DoClear(t)

NextLive ==
    \/ \E t \in Threads \ {1} : Invoke(t)
    \/ \E t \in Threads : Acquire(t)
    \/ \E t \in Threads : Finish(t)
    \/ life.fresh /\ RecoverBegin(1)
    \/ \E t \in Threads : RecoverLock(t)
    \/ \E t \in Threads : RecoverApply(t)
    \/ \E t \in Threads : RecoverEnd(t)

\* fair scheduling: a thread that can go on with the call it is in
\* eventually does
Fair ==
    \A t \in 1..NumThreads :
        /\ WF_vars(Acquire(t))
        /\ WF_vars(Finish(t))
        /\ WF_vars(RecoverLock(t))
        /\ WF_vars(RecoverApply(t))
        /\ WF_vars(RecoverEnd(t))

SpecLive == InitLive /\ [][NextLive]_vars /\ Fair

(***************************************************************************)
(* Properties of termination (SpecLive).                                   *)
(***************************************************************************)
\* the mutex is held only by a thread that is past a lock_guard and before
\* the return of that call
HeldInsideCalls ==
    /\ mutex_ = Free \/ mutex_ \in Threads
    /\ \A t \in Threads : mutex_ = t <=> pc[t] \in {"locked", "replay_locked"}

\* C18: under fair scheduling every invoked put, get, del, exists, size,
\* clear and recover returns; the mutex is released by the return on every
\* path (the early returns of get and del among them), and recover() takes
\* the mutex only inside the put, del and clear it calls, so that these
\* calls are never blocked by recover() itself.
C18_EveryCallReturns ==
    /\ []HeldInsideCalls
    /\ \A t \in 1..NumThreads :
          (pc[t] # "idle") ~> (pc[t] = "idle" /\ mutex_ # t)

\* C18 witness: recover() has replayed a PUT, a DEL and a CLEAR record and
\* returned while thread 2 made its calls, and thread 2's last call, a del
\* of a key that is not present, has returned; the mutex is free.
C18_Witness ==
    /\ \A t \in Threads : pc[t] = "idle"
    /\ iter[2] = Cycles
    /\ life.recovered
    /\ NumRecords(disk) > 3
    /\ last.op = "del"
    /\ last.t = 2
    /\ last.ret = FALSE
    /\ mutex_ = Free

(***************************************************************************)
(* Properties of recover() with one caller (Spec).                         *)
(***************************************************************************)
\* the step is made by recover(): its opening, a record it replays or
\* passes over, or its return
RecoverStep ==
    \/ last'.op \in {"recover_open", "skip", "recover"}
    \/ last'.by = "recover"

\* C19: logging is suspended during replay: with no concurrent caller no
\* step of recover(), whatever record it replays, changes the content of
\* the log, so that the log after the call is the log before it.
C19_ReplayWritesNothing == [][RecoverStep => disk' = disk]_vars

\* C19 witness: recover() has returned true on a logging cache of capacity 1
\* after it replayed a full log with a DEL record in it; the cache is full
\* and the log is open for writing again.
C19_Witness ==
    /\ last.op = "recover"
    /\ last.ret = TRUE
    /\ wal_file_ = "open"
    /\ NumRecords(disk) = MaxLog
    /\ \E i \in 1..Len(disk) : disk[i] = "D"
    /\ max_capacity_ = 1
    /\ Full

(***************************************************************************)
(* More properties of the life of a log (SpecWal): a third cache object.   *)
(***************************************************************************)
\* recover() has just returned true on the third cache object, as its first
\* call; the second object was logging, recovered first, and was then given
\* put, del and clear calls only
ThirdRecovered ==
    /\ last.op = "recover"
    /\ last.ret = TRUE
    /\ life.recovered
    /\ gen = 2
    /\ prev.logging
    /\ prev.life.recovered
    /\ ~prev.life.gets

\* C20: after recover() has returned true on a cache whose log was opened
\* for writing, the log is open again; every later put, successful del and
\* clear appends its record after the records already there; and a third
\* cache of the same capacity, after its recover() from that log, holds the
\* keys and values the second cache held at its end.
C20_LoggingResumes ==
    /\ [](last.op = "recover" /\ last.ret = TRUE => wal_file_ = "open")
    /\ [][(life.recovered /\ LiveMutation) => RecordAppended]_vars
    /\ [](ThirdRecovered => Contents(cache_) = prev.contents)

\* C20 witness: the second cache found records on the log, recovered, and
\* appended to it; the third cache has recovered from the full log and
\* holds, with a value that has spaces, what the second held at its end.
C20_Witness ==
    /\ ThirdRecovered
    /\ prev.life.found >= 1
    /\ NumRecords(disk) > prev.life.found
    /\ NumRecords(disk) = MaxLog
    /\ Contents(cache_) = prev.contents
    /\ \E k \in DOMAIN cache_ : cache_[k].value # << >>

(***************************************************************************)
(* recover() on a log that holds malformed lines: a cache is constructed   *)
(* over a file of at most MaxLog lines, each a record as write_wal writes  *)
(* it or a malformed line, and recover() is the first call on it.          *)
(***************************************************************************)
\* a record as write_wal writes it, without its newline
RecordLine(operation, key, value) ==
    LET r == write_wal(<< >>, "open", operation, key, value)
    IN  SubSeq(r, 1, Len(r) - 1)

GoodLines ==
    { RecordLine(OpPUT, key, value) : key \in Keys, value \in Values }
        \cup { RecordLine(OpDEL, key, << >>) : key \in Keys }
        \cup { RecordLine(OpCLEAR, << >>, << >>) }

\* an empty line, a blank line, a PUT and a DEL with no key (with and
\* without a space after the word), and lines with an unknown operation word
MalformedLines ==
    { << >>,
      <<" ">>,
      OpPUT,
      OpDEL \o <<" ">>,
      <<"S", "E", "T", " ", "a", " ", "y">>,
      <<"p", "u", "t", " ", "a">> }

\* the file that holds the lines ls
RECURSIVE FileOf(_)
FileOf(ls) ==
    IF ls = << >> THEN << >>
    ELSE Head(ls) \o <<"\n">> \o FileOf(Tail(ls))

LogFiles ==
    { FileOf(ls) : ls \in UNION { [1..n -> GoodLines \cup MalformedLines] : n \in 0..MaxLog } }

\* the file d from position pos on, without its malformed lines
RECURSIVE WithoutMalformed(_, _)
WithoutMalformed(d, pos) ==
    LET g == GetLine(d, pos)
    IN  IF ~g.ok THEN << >>
        ELSE (IF g.line \in MalformedLines THEN << >> ELSE g.line \o <<"\n">>)
                 \o WithoutMalformed(d, g.next)

\* a cache constructed with its log enabled over the file disk holds
ConstructedOver(threads, caps, files) ==
    /\ max_capacity_ \in caps
    /\ wal_path_ = WalPath
    /\ fs_ok = TRUE
    /\ cache_ = EmptyMap
    /\ lru_list_ = << >>
    /\ wal_file_ = OpenWal(wal_path_, fs_ok)
    /\ mutex_ = Free
    /\ disk \in files
    /\ pc = [t \in threads |-> "idle"]
    /\ iter = [t \in threads |-> 0]
    /\ wal_in = [t \in threads |-> 0]
    /\ temp_wal = [t \in threads |-> "null"]
    /\ last = [op |-> "init", t |-> 0, key |-> << >>, value |-> << >>, ret |-> "void",
               by |-> "caller", present |-> FALSE, size |-> 0, oldest |-> << >>,
               removed |-> {}]
    /\ useOrder = << >>
    /\ lastPut = EmptyMap
    /\ life = [NewLife EXCEPT !.found = NumRecords(disk)]
    /\ prev = [contents |-> EmptyMap, order |-> << >>, life |-> NewLife,
               logging |-> FALSE]
    /\ gen = 0
    /\ twin = NewTwin

InitReplay == ConstructedOver({1}, 1..MaxCap, LogFiles)

NextReplay ==
    \/ \E t \in Threads : life.fresh /\ RecoverBegin(t)
    \/ \E t \in Threads : RecoverLine(t)
    \/ \E t \in Threads : RecoverEnd(t)

SpecReplay == InitReplay /\ [][NextReplay]_vars

(***************************************************************************)
(* Properties of recover() on a log with malformed lines (SpecReplay).     *)
(***************************************************************************)
\* recover() is about to read a malformed line
AtMalformedLine ==
    /\ pc[1] = "replay"
    /\ GetLine(disk, wal_in[1]).ok
    /\ GetLine(disk, wal_in[1]).line \in MalformedLines

\* C21: during replay a malformed record (an empty line, a line with an
\* unknown operation word, a PUT or DEL line with no key) changes nothing
\* in the cache, the records after it are still applied in order, and
\* recover() returns true: the cache after recover() is the cache recover()
\* builds from the same file with the malformed lines taken out.
C21_MalformedSkipped ==
    /\ [][AtMalformedLine =>
             /\ UNCHANGED << cache_, lru_list_, wal_file_, disk >>
             /\ pc'[1] = "replay"
             /\ wal_in'[1] = GetLine(disk, wal_in[1]).next]_vars
    /\ [](last.op = "recover" =>
             /\ last.ret = TRUE
             /\ LET r == Replay(EmptyMap, << >>, max_capacity_,
                                WithoutMalformed(disk, 1), 1)
                IN  cache_ = r.cache /\ lru_list_ = r.lru)

\* C21 witness: recover() has returned true on a file whose first line is a
\* PUT record, whose second line is malformed and whose third line is a PUT
\* record of another key; the cache of capacity 2 holds both keys.
C21_Witness ==
    /\ last.op = "recover"
    /\ last.ret = TRUE
    /\ max_capacity_ = 2
    /\ NumRecords(disk) = 3
    /\ GetLine(disk, GetLine(disk, 1).next).line \in MalformedLines
    /\ GetLine(disk, GetLine(disk, 1).next).line # << >>
    /\ CacheSize(cache_) = 2
    /\ wal_file_ = "open"


(***************************************************************************)
(* A crash in the middle of an append: the process dies while the last     *)
(* record of the log is only partly in the file, and a new cache is        *)
(* constructed over the file and recovers from it.                         *)
(***************************************************************************)
\* the lengths at which the last record of d can be cut: at least one of its
\* characters is in the file and at least one besides the newline is not
TornCuts(d) ==
    { n \in 1..(Len(d) - 2) :
         /\ d[n] # "\n"
         /\ \A i \in (n + 1)..(Len(d) - 1) : d[i] # "\n" }

\* the complete records of d: the file up to its last newline
CompletePrefix(d) ==
    LET ends == { i \in 1..Len(d) : d[i] = "\n" }
    IN  IF ends = {} THEN << >>
        ELSE SubSeq(d, 1, CHOOSE i \in ends : \A j \in ends : j <= i)

Crash ==
    /\ \A t \in Threads : pc[t] = "idle"
    /\ gen < 1
    /\ wal_file_ = "open"
    /\ \E n \in TornCuts(disk) : disk' = SubSeq(disk, 1, n)
    /\ gen' = gen + 1
    /\ prev' = [contents |-> Contents(cache_), order |-> Order(lru_list_),
                life |-> life, logging |-> wal_file_ = "open"]
    /\ cache_' = EmptyMap
    /\ lru_list_' = << >>
    /\ wal_file_' = OpenWal(wal_path_, fs_ok)
    /\ life' = [NewLife EXCEPT !.found = NumRecords(disk')]
    /\ useOrder' = << >>
    /\ lastPut' = EmptyMap
    /\ last' = Call("crash", 0, << >>, << >>, "void", "caller", EmptyMap)
    /\ UNCHANGED << mutex_, pc, iter, wal_in, temp_wal, conf, twin >>

InitCrash ==
    /\ Constructed({1}, 1..MaxCap, {"enabled"})
    /\ pc = [t \in {1} |-> "idle"]
    /\ iter = [t \in {1} |-> 0]

NextCrash ==
    \/ \E t \in Threads : gen = 0 /\ Put(t)
    \/ \E t \in Threads : gen = 0 /\ Del(t)
    \/ \E t \in Threads : gen = 0 /\ Clear(t)
    \/ Crash
    \/ \E t \in Threads : life.fresh /\ RecoverBegin(t)
    \/ \E t \in Threads : RecoverLine(t)
    \/ \E t \in Threads : RecoverEnd(t)

SpecCrash == InitCrash /\ [][NextCrash]_vars

\* C22: a partially-written trailing record is skipped: when the last
\* record of the log was cut by a crash, recover() returns true and the
\* cache is the one recover() builds from the complete records before it.
C22_TornRecordSkipped ==
    (gen = 1 /\ last.op = "recover") =>
        /\ last.ret = TRUE
        /\ LET r == Replay(EmptyMap, << >>, max_capacity_, CompletePrefix(disk), 1)
           IN  cache_ = r.cache /\ lru_list_ = r.lru


(***************************************************************************)
(* The original cache and the cache recovered from its log, side by side:  *)
(* a logging cache is given put, del and clear calls; a new cache of the   *)
(* same capacity is constructed over its log and recovers, while the       *)
(* original (kept in twin, its later records apart) lives on; then one     *)
(* caller makes the same further calls, at most Further of them writing a  *)
(* record, on both.                                                        *)
(***************************************************************************)
Further == 1

Reopen ==
    /\ \A t \in Threads : pc[t] = "idle"
    /\ gen < 1
    /\ gen' = gen + 1
    /\ prev' = [contents |-> Contents(cache_), order |-> Order(lru_list_),
                life |-> life, logging |-> wal_file_ = "open"]
    /\ twin' = [cache |-> cache_, lru |-> lru_list_, disk |-> << >>, ret |-> "void"]
    /\ cache_' = EmptyMap
    /\ lru_list_' = << >>
    /\ wal_file_' = OpenWal(wal_path_, fs_ok)
    /\ life' = [NewLife EXCEPT !.found = NumRecords(disk)]
    /\ useOrder' = << >>
    /\ lastPut' = EmptyMap
    /\ last' = Call("restart", 0, << >>, << >>, "void", "caller", EmptyMap)
    /\ UNCHANGED << mutex_, disk, pc, iter, wal_in, temp_wal, conf >>

\* the recovered cache is in use and the original may write another record
Alike(t) ==
    /\ gen = 1
    /\ life.recovered
    /\ Both(t)

FurtherRoom == NumRecords(twin.disk) < Further

AlikePut(t) ==
    /\ Alike(t)
    /\ FurtherRoom
    /\ \E key \in Keys, value \in Values :
          /\ put(t, key, value, "caller")
          /\ twin' = TwinPut(key, value)
    /\ life' = Used(FALSE)

AlikeGet(t) ==
    /\ Alike(t)
    /\ \E key \in Keys : get(t, key) /\ twin' = TwinGet(key)
    /\ life' = Used(TRUE)

AlikeDel(t) ==
    /\ Alike(t)
    /\ FurtherRoom
    /\ \E key \in Keys : del(t, key, "caller") /\ twin' = TwinDel(key)
    /\ life' = Used(FALSE)

AlikeClear(t) ==
    /\ Alike(t)
    /\ FurtherRoom
    /\ clear(t, "caller")
    /\ twin' = TwinClear
    /\ life' = Used(FALSE)

InitPair ==
    /\ Constructed({1}, 1..MaxCap, {"enabled"})
    /\ pc = [t \in {1} |-> "idle"]
    /\ iter = [t \in {1} |-> 0]

NextPair ==
    \/ \E t \in Threads : gen = 0 /\ Put(t)
    \/ \E t \in Threads : gen = 0 /\ Del(t)
    \/ \E t \in Threads : gen = 0 /\ Clear(t)
    \/ Reopen
    \/ \E t \in Threads : gen = 1 /\ life.fresh /\ RecoverBegin(t)
    \/ \E t \in Threads : RecoverLine(t)
    \/ \E t \in Threads : RecoverEnd(t)
    \/ \E t \in Threads : AlikePut(t)
    \/ \E t \in Threads : AlikeGet(t)
    \/ \E t \in Threads : AlikeDel(t)
    \/ \E t \in Threads : AlikeClear(t)

SpecPair == InitPair /\ [][NextPair]_vars

(***************************************************************************)
(* Properties of the original and the recovered cache (SpecPair).          *)
(***************************************************************************)
\* C23: after put, del and clear calls only on a logging cache, a new cache
\* of the same capacity that recovers from the log has the original's
\* most-to-least-recently-used order and its contents, and every further
\* call made on both returns the same result on both and leaves both with
\* the same contents (so evicts the same keys) and the same order.
C23_ReplayKeepsRecency ==
    (gen = 1 /\ life.recovered /\ pc[1] = "idle") =>
        /\ Order(lru_list_) = Order(twin.lru)
        /\ Contents(cache_) = Contents(twin.cache)
        /\ last.op = "recover" =>
              /\ Order(lru_list_) = prev.order
              /\ Contents(cache_) = prev.contents
        /\ last.op \in {"put", "get", "del", "clear"} => last.ret = twin.ret

\* C23 witness: the original of capacity 2 logged three PUT records, the
\* third putting the first one's key again, so that this key was its most
\* recently used; on the recovered cache and the original a further put of
\* a new key has evicted the same key, the other one.
C23_Witness ==
    /\ gen = 1
    /\ life.recovered
    /\ last.op = "put"
    /\ last.by = "caller"
    /\ last.removed # {}
    /\ max_capacity_ = 2
    /\ Len(prev.order) = 2
    /\ ParseRecord(GetLine(disk, 1).line).kind = "put"
    /\ ParseRecord(GetLine(disk, 1).line).key = prev.order[1]
    /\ last.removed = {prev.order[2]}
    /\ Contents(cache_) = Contents(twin.cache)
    /\ NumRecords(twin.disk) = 1

====
